---- MODULE Spec2Model ----
(***************************************************************************)
(* The entity HTTP client of src/api.js: thirteen exported asynchronous    *)
(* functions, each of which builds a request, awaits fetch, tests          *)
(* response.ok, throws a fixed error on a non-ok status and otherwise      *)
(* returns response.json().                                                *)
(*                                                                         *)
(* A JavaScript string is a sequence of one-character strings, so that     *)
(* template-literal interpolation is sequence concatenation and the text   *)
(* that reaches the wire can be taken apart again character by character.  *)
(***************************************************************************)
EXTENDS Integers, Sequences, FiniteSets, TLC

VARIABLES
  pc,        \* per call: where the async function stands
  call,      \* per call: the operation invoked and its arguments
  requests,  \* the transport's log of the requests handed to fetch, in order
  response,  \* per call: the Response bound by `const response = await fetch`
  jsonCalls, \* per call: how many times response.json() was invoked
  outcome    \* per call: how the promise returned to the caller settled

vars == <<pc, call, requests, response, jsonCalls, outcome>>

----------------------------------------------------------------------------
(* String constants of src/api.js *)

\* the text  http://localhost:8000
BASE_URL ==
  <<"h","t","t","p",":","/","/","l","o","c","a","l","h","o","s","t",":","8",
    "0","0","0">>

\* the text  /columns
ColumnsSuffix ==
  <<"/","c","o","l","u","m","n","s">>

\* the text  /search?entity=
SearchPrefix ==
  <<"/","s","e","a","r","c","h","?","e","n","t","i","t","y","=">>

\* the text  /sort?entity=
SortPrefix ==
  <<"/","s","o","r","t","?","e","n","t","i","t","y","=">>

\* the text  /all?entity=
AllPrefix ==
  <<"/","a","l","l","?","e","n","t","i","t","y","=">>

\* the text  &column=
ColumnParam ==
  <<"&","c","o","l","u","m","n","=">>

\* the text  &value=
ValueParam ==
  <<"&","v","a","l","u","e","=">>

\* the text  &order=
OrderParam ==
  <<"&","o","r","d","e","r","=">>

\* the text  /students
StudentsPath ==
  <<"/","s","t","u","d","e","n","t","s">>

\* the text  /mentors
MentorsPath ==
  <<"/","m","e","n","t","o","r","s">>

\* the text  /projects
ProjectsPath ==
  <<"/","p","r","o","j","e","c","t","s">>

\* the text  Failed to fetch 
FailedToFetch ==
  <<"F","a","i","l","e","d"," ","t","o"," ","f","e","t","c","h"," ">>

\* the text   columns
ColumnsWord ==
  <<" ","c","o","l","u","m","n","s">>

\* the text  Failed to search records
SearchMessage ==
  <<"F","a","i","l","e","d"," ","t","o"," ","s","e","a","r","c","h"," ","r",
    "e","c","o","r","d","s">>

\* the text  Failed to sort records
SortMessage ==
  <<"F","a","i","l","e","d"," ","t","o"," ","s","o","r","t"," ","r","e","c",
    "o","r","d","s">>

\* the text  Failed to fetch all records
AllMessage ==
  <<"F","a","i","l","e","d"," ","t","o"," ","f","e","t","c","h"," ","a","l",
    "l"," ","r","e","c","o","r","d","s">>

\* the text  Failed to insert student
InsertStudentMessage ==
  <<"F","a","i","l","e","d"," ","t","o"," ","i","n","s","e","r","t"," ","s",
    "t","u","d","e","n","t">>

\* the text  Failed to delete students
DeleteStudentsMessage ==
  <<"F","a","i","l","e","d"," ","t","o"," ","d","e","l","e","t","e"," ","s",
    "t","u","d","e","n","t","s">>

\* the text  Failed to update student
UpdateStudentMessage ==
  <<"F","a","i","l","e","d"," ","t","o"," ","u","p","d","a","t","e"," ","s",
    "t","u","d","e","n","t">>

\* the text  Failed to insert mentor
InsertMentorMessage ==
  <<"F","a","i","l","e","d"," ","t","o"," ","i","n","s","e","r","t"," ","m",
    "e","n","t","o","r">>

\* the text  Failed to update mentor
UpdateMentorMessage ==
  <<"F","a","i","l","e","d"," ","t","o"," ","u","p","d","a","t","e"," ","m",
    "e","n","t","o","r">>

\* the text  Failed to delete mentors
DeleteMentorsMessage ==
  <<"F","a","i","l","e","d"," ","t","o"," ","d","e","l","e","t","e"," ","m",
    "e","n","t","o","r","s">>

\* the text  Failed to insert project
InsertProjectMessage ==
  <<"F","a","i","l","e","d"," ","t","o"," ","i","n","s","e","r","t"," ","p",
    "r","o","j","e","c","t">>

\* the text  Failed to update project
UpdateProjectMessage ==
  <<"F","a","i","l","e","d"," ","t","o"," ","u","p","d","a","t","e"," ","p",
    "r","o","j","e","c","t">>

\* the text  Failed to delete projects
DeleteProjectsMessage ==
  <<"F","a","i","l","e","d"," ","t","o"," ","d","e","l","e","t","e"," ","p",
    "r","o","j","e","c","t","s">>

\* the header object every POST, PUT and DELETE passes to fetch
JsonHeaders == {<<"Content-Type", "application/json">>}

----------------------------------------------------------------------------
(* JavaScript values.  One record shape for every value: t is the type,    *)
(* n the number, s the characters of a string, a the elements of an array, *)
(* o the members of an object in insertion order.                          *)

Null == [t |-> "null", n |-> 0, s |-> <<>>, a |-> <<>>, o |-> <<>>]
Bool(b) == [t |-> IF b THEN "true" ELSE "false", n |-> 0, s |-> <<>>, a |-> <<>>, o |-> <<>>]
Num(k) == [t |-> "num", n |-> k, s |-> <<>>, a |-> <<>>, o |-> <<>>]
Str(x) == [t |-> "str", n |-> 0, s |-> x, a |-> <<>>, o |-> <<>>]
Arr(x) == [t |-> "arr", n |-> 0, s |-> <<>>, a |-> x, o |-> <<>>]
Obj(m) == [t |-> "obj", n |-> 0, s |-> <<>>, a |-> <<>>, o |-> m]
Member(k, v) == [k |-> k, v |-> v]

DigitChars == <<"0", "1", "2", "3", "4", "5", "6", "7", "8", "9">>

\* String(k) of a non-negative integer: what `${id}` and JSON.stringify write
RECURSIVE NumberToString(_)
NumberToString(k) ==
  IF k < 10 THEN <<DigitChars[k + 1]>>
  ELSE NumberToString(k \div 10) \o <<DigitChars[(k % 10) + 1]>>

\* the characters of a string inside JSON quotes: " and \ are escaped
RECURSIVE EscapeChars(_)
EscapeChars(x) ==
  IF x = <<>> THEN <<>>
  ELSE (IF Head(x) \in {"\"", "\\"} THEN <<"\\", Head(x)>> ELSE <<Head(x)>>)
       \o EscapeChars(Tail(x))

QuoteString(x) == <<"\"">> \o EscapeChars(x) \o <<"\"">>

\* JSON.stringify(v): no white space, members in insertion order
RECURSIVE JSONstringify(_)
RECURSIVE StringifyElements(_, _)
RECURSIVE StringifyMembers(_, _)
JSONstringify(v) ==
  CASE v.t = "null"  -> <<"n", "u", "l", "l">>
    [] v.t = "true"  -> <<"t", "r", "u", "e">>
    [] v.t = "false" -> <<"f", "a", "l", "s", "e">>
    [] v.t = "num"   -> NumberToString(v.n)
    [] v.t = "str"   -> QuoteString(v.s)
    [] v.t = "arr"   -> <<"[">> \o StringifyElements(v.a, 1) \o <<"]">>
    [] v.t = "obj"   -> <<"{">> \o StringifyMembers(v.o, 1) \o <<"}">>

StringifyElements(a, i) ==
  IF i > Len(a) THEN <<>>
  ELSE (IF i > 1 THEN <<",">> ELSE <<>>) \o JSONstringify(a[i])
       \o StringifyElements(a, i + 1)

StringifyMembers(m, i) ==
  IF i > Len(m) THEN <<>>
  ELSE (IF i > 1 THEN <<",">> ELSE <<>>) \o QuoteString(m[i].k) \o <<":">>
       \o JSONstringify(m[i].v) \o StringifyMembers(m, i + 1)

----------------------------------------------------------------------------
(* JSON.parse, by recursive descent over the text x from position i.  A    *)
(* result is [ok, val, pos]: pos is the position after the value.  The     *)
(* grammar covered: null, true, false, non-negative integers, strings with *)
(* the escapes \" and \\, arrays, objects, white space between tokens.     *)

ParseFail == [ok |-> FALSE, val |-> Null, pos |-> 0]
Parsed(v, p) == [ok |-> TRUE, val |-> v, pos |-> p]

WhiteSpace == {" ", "\t", "\n", "\r"}
Digits == {DigitChars[k] : k \in 1..10}
DigitValue(ch) == (CHOOSE k \in 1..10 : DigitChars[k] = ch) - 1

At(x, i) == IF i >= 1 /\ i <= Len(x) THEN x[i] ELSE "EOF"

RECURSIVE SkipWs(_, _)
SkipWs(x, i) == IF At(x, i) \in WhiteSpace THEN SkipWs(x, i + 1) ELSE i

\* whether the literal w stands in x at position i
MatchAt(x, i, w) ==
  /\ i + Len(w) - 1 <= Len(x)
  /\ \A k \in 1..Len(w) : x[i + k - 1] = w[k]

\* the digits from position i, accumulated into acc
RECURSIVE ParseDigits(_, _, _)
ParseDigits(x, i, acc) ==
  IF At(x, i) \in Digits THEN ParseDigits(x, i + 1, acc * 10 + DigitValue(x[i]))
  ELSE Parsed(Num(acc), i)

\* a number: 0, or a non-zero digit followed by digits (no leading zero)
ParseNumber(x, i) ==
  IF At(x, i) = "0" THEN Parsed(Num(0), i + 1)
  ELSE IF At(x, i) \in Digits THEN ParseDigits(x, i, 0)
  ELSE ParseFail

\* the characters of a string from position i (after the opening quote)
RECURSIVE ParseChars(_, _, _)
ParseChars(x, i, acc) ==
  CASE At(x, i) = "\"" -> Parsed(Str(acc), i + 1)
    [] At(x, i) = "\\" ->
         IF At(x, i + 1) \in {"\"", "\\"}
         THEN ParseChars(x, i + 2, Append(acc, x[i + 1]))
         ELSE ParseFail
    [] At(x, i) = "EOF" -> ParseFail
    [] OTHER -> ParseChars(x, i + 1, Append(acc, x[i]))

ParseString(x, i) ==
  IF At(x, i) = "\"" THEN ParseChars(x, i + 1, <<>>) ELSE ParseFail

\* the one element of a one-element set.  Only({F(v) : v \in {e}}) is F(e)
\* with e evaluated once, before F
Only(S) == CHOOSE v \in S : TRUE

RECURSIVE ParseValue(_, _)
RECURSIVE ParseElements(_, _, _)
RECURSIVE ParseMembers(_, _, _)

ParseValue(x, i0) ==
  Only({ CASE At(x, i) = "[" ->
                Only({ IF At(x, j) = "]" THEN Parsed(Arr(<<>>), j + 1)
                       ELSE ParseElements(x, i + 1, <<>>)
                       : j \in {SkipWs(x, i + 1)} })
           [] At(x, i) = "{" ->
                Only({ IF At(x, j) = "}" THEN Parsed(Obj(<<>>), j + 1)
                       ELSE ParseMembers(x, i + 1, <<>>)
                       : j \in {SkipWs(x, i + 1)} })
           [] At(x, i) = "\"" -> ParseString(x, i)
           [] At(x, i) \in Digits -> ParseNumber(x, i)
           [] MatchAt(x, i, <<"n", "u", "l", "l">>) -> Parsed(Null, i + 4)
           [] MatchAt(x, i, <<"t", "r", "u", "e">>) -> Parsed(Bool(TRUE), i + 4)
           [] MatchAt(x, i, <<"f", "a", "l", "s", "e">>) -> Parsed(Bool(FALSE), i + 5)
           [] OTHER -> ParseFail
         : i \in {SkipWs(x, i0)} })

\* after the element or member e, at position j: a comma and more, or the
\* closing bracket
ParseElementsAfter(x, acc, e, j) ==
  CASE At(x, j) = "," -> ParseElements(x, j + 1, Append(acc, e.val))
    [] At(x, j) = "]" -> Parsed(Arr(Append(acc, e.val)), j + 1)
    [] OTHER -> ParseFail

\* the elements of an array from position i: value (, value)* ]
ParseElements(x, i, acc) ==
  Only({ IF ~e.ok THEN ParseFail
         ELSE Only({ ParseElementsAfter(x, acc, e, j) : j \in {SkipWs(x, e.pos)} })
         : e \in {ParseValue(x, i)} })

ParseMembersAfter(x, acc, k, e, j) ==
  CASE At(x, j) = "," -> ParseMembers(x, j + 1, Append(acc, Member(k.val.s, e.val)))
    [] At(x, j) = "}" -> Parsed(Obj(Append(acc, Member(k.val.s, e.val))), j + 1)
    [] OTHER -> ParseFail

\* the value of the member named k, after the colon at position c
ParseMemberValue(x, acc, k, c) ==
  Only({ IF ~e.ok THEN ParseFail
         ELSE Only({ ParseMembersAfter(x, acc, k, e, j) : j \in {SkipWs(x, e.pos)} })
         : e \in {ParseValue(x, c + 1)} })

\* the members of an object from position i: "key" : value (, ...)* }
ParseMembers(x, i, acc) ==
  Only({ IF ~k.ok THEN ParseFail
         ELSE Only({ IF At(x, c) # ":" THEN ParseFail
                     ELSE ParseMemberValue(x, acc, k, c)
                     : c \in {SkipWs(x, k.pos)} })
         : k \in {ParseString(x, SkipWs(x, i))} })

\* JSON.parse(x): one value and nothing but white space after it
JSONparse(x) ==
  Only({ IF r.ok /\ SkipWs(x, r.pos) = Len(x) + 1 THEN r ELSE ParseFail
         : r \in {ParseValue(x, 1)} })

----------------------------------------------------------------------------
(* Requests and responses *)

\* `${v}` in a template literal: a string verbatim, a number in decimal
Interpolate(v) ==
  CASE v.t = "str" -> v.s
    [] v.t = "num" -> NumberToString(v.n)
    [] v.t = "null" -> <<"n", "u", "l", "l">>
    [] v.t = "true" -> <<"t", "r", "u", "e">>
    [] v.t = "false" -> <<"f", "a", "l", "s", "e">>

\* fetch(url): no init object, so GET, no headers and no body
FetchGet(url) ==
  [method |-> "GET", url |-> url, headers |-> {}, hasBody |-> FALSE, body |-> <<>>]

\* fetch(url, {method, headers: {'Content-Type': 'application/json'}, body})
FetchJson(method, url, body) ==
  [method |-> method, url |-> url, headers |-> JsonHeaders, hasBody |-> TRUE,
   body |-> body]

fetchEntityColumnsRequest(entity) ==
  FetchGet(BASE_URL \o <<"/">> \o Interpolate(entity) \o ColumnsSuffix)

\* encodeURIComponent, for the characters & and = (the code does not call it)
RECURSIVE EncodeURIComponent(_)
EncodeURIComponent(x) ==
  IF x = <<>> THEN <<>>
  ELSE (CASE Head(x) = "&" -> <<"%", "2", "6">>
          [] Head(x) = "=" -> <<"%", "3", "D">>
          [] OTHER -> <<Head(x)>>)
       \o EncodeURIComponent(Tail(x))

\* a faulty variant of searchRecords: the arguments are escaped
EncodedSearchRequest(entity, column, value) ==
  FetchGet(BASE_URL \o SearchPrefix \o EncodeURIComponent(Interpolate(entity))
           \o ColumnParam \o EncodeURIComponent(Interpolate(column))
           \o ValueParam \o EncodeURIComponent(Interpolate(value)))

\* fetch(`${BASE_URL}/search?entity=${entity}&column=${column}&value=${value}`)
searchRecordsRequest(entity, column, value) ==
  FetchGet(BASE_URL \o SearchPrefix \o Interpolate(entity) \o ColumnParam
           \o Interpolate(column) \o ValueParam \o Interpolate(value))

sortRecordsRequest(entity, column, order) ==
  FetchGet(BASE_URL \o SortPrefix \o Interpolate(entity) \o ColumnParam
           \o Interpolate(column) \o OrderParam \o Interpolate(order))

selectAllRecordsRequest(entity) ==
  FetchGet(BASE_URL \o AllPrefix \o Interpolate(entity))

insertStudentRequest(student) ==
  FetchJson("POST", BASE_URL \o StudentsPath, JSONstringify(student))

deleteStudentsRequest(studentIds) ==
  FetchJson("DELETE", BASE_URL \o StudentsPath, JSONstringify(studentIds))

updateStudentRequest(studentId, student) ==
  FetchJson("PUT", BASE_URL \o StudentsPath \o <<"/">> \o Interpolate(studentId),
            JSONstringify(student))

\* a faulty variant of insertMentor: the path of the student functions
InsertMentorAsStudent(mentor) ==
  FetchJson("POST", BASE_URL \o StudentsPath, JSONstringify(mentor))

\* fetch(`${BASE_URL}/mentors`, {method: 'POST', ...})
insertMentorRequest(mentor) ==
  FetchJson("POST", BASE_URL \o MentorsPath, JSONstringify(mentor))

updateMentorRequest(mentorId, mentor) ==
  FetchJson("PUT", BASE_URL \o MentorsPath \o <<"/">> \o Interpolate(mentorId),
            JSONstringify(mentor))

deleteMentorsRequest(mentorIds) ==
  FetchJson("DELETE", BASE_URL \o MentorsPath, JSONstringify(mentorIds))

insertProjectRequest(project) ==
  FetchJson("POST", BASE_URL \o ProjectsPath, JSONstringify(project))

updateProjectRequest(projectId, project) ==
  FetchJson("PUT", BASE_URL \o ProjectsPath \o <<"/">> \o Interpolate(projectId),
            JSONstringify(project))

deleteProjectsRequest(projectIds) ==
  FetchJson("DELETE", BASE_URL \o ProjectsPath, JSONstringify(projectIds))

\* how a promise settles
Pending == [kind |-> "pending", value |-> Null, name |-> "", message |-> <<>>]
Fulfilled(v) == [kind |-> "value", value |-> v, name |-> "", message |-> <<>>]
Rejected(n, m) == [kind |-> "error", value |-> Null, name |-> n, message |-> m]

\* a Response: the status line, the body text, and whether the body stream
\* reaches its end (complete) or breaks off
NoResponse == [status |-> 0, body |-> <<>>, complete |-> FALSE]

\* a faulty variant of the ok test: redirects pass
ResponseOkBelow400(resp) == resp.status >= 200 /\ resp.status < 400

\* response.ok: the status is in the range 200-299
ResponseOk(resp) == resp.status >= 200 /\ resp.status <= 299

\* the text  network error
BodyStreamMessage ==
  <<"n","e","t","w","o","r","k"," ","e","r","r","o","r">>

\* the text  Unexpected token
SyntaxErrorMessage ==
  <<"U","n","e","x","p","e","c","t","e","d"," ","t","o","k","e","n">>

\* the text  Failed to fetch
FetchFailedMessage ==
  <<"F","a","i","l","e","d"," ","t","o"," ","f","e","t","c","h">>

\* a faulty variant of the decoding: response.text(), the body as a string
ResponseText(resp) ==
  IF ~resp.complete THEN Rejected("TypeError", BodyStreamMessage)
  ELSE Fulfilled(Str(resp.body))

\* response.json(): reads the body to its end and JSON.parse's the text
ResponseJson(resp) ==
  IF ~resp.complete THEN Rejected("TypeError", BodyStreamMessage)
  ELSE LET parsed == JSONparse(resp.body)
       IN  IF parsed.ok THEN Fulfilled(parsed.val)
           ELSE Rejected("SyntaxError", SyntaxErrorMessage)

\* a faulty variant of the messages: the read operations name their entity
MessageNamingEntity(k) ==
  IF k.op = "fetchEntityColumns" THEN FailedToFetch \o Interpolate(k.args[1]) \o ColumnsWord
  ELSE IF k.op \in {"searchRecords", "sortRecords", "selectAllRecords"}
  THEN FailedToFetch \o Interpolate(k.args[1]) \o <<" ", "r", "e", "c", "o", "r", "d", "s">>
  ELSE InsertStudentMessage

\* the message of `throw new Error(...)` in the operation k
ErrorMessage(k) ==
  CASE k.op = "fetchEntityColumns" ->
         FailedToFetch \o Interpolate(k.args[1]) \o ColumnsWord
    [] k.op = "searchRecords" -> SearchMessage
    [] k.op = "sortRecords" -> SortMessage
    [] k.op = "selectAllRecords" -> AllMessage
    [] k.op = "insertStudent" -> InsertStudentMessage
    [] k.op = "deleteStudents" -> DeleteStudentsMessage
    [] k.op = "updateStudent" -> UpdateStudentMessage
    [] k.op = "insertMentor" -> InsertMentorMessage
    [] k.op = "updateMentor" -> UpdateMentorMessage
    [] k.op = "deleteMentors" -> DeleteMentorsMessage
    [] k.op = "insertProject" -> InsertProjectMessage
    [] k.op = "updateProject" -> UpdateProjectMessage
    [] k.op = "deleteProjects" -> DeleteProjectsMessage

\* a faulty variant of the await: a catch wraps the error of fetch into the
\* error of the operation
WrappedRejection(k, e) == Rejected("Error", ErrorMessage(k))

\* `await fetch(...)` stands in no try block: when fetch rejects with e, the
\* operation k rejects with e itself
AwaitRejection(k, e) == e

----------------------------------------------------------------------------
(* The inputs the calls are made with, and the answers of the backend *)

\* the text  students
students ==
  <<"s","t","u","d","e","n","t","s">>

\* the text  mentors
mentors ==
  <<"m","e","n","t","o","r","s">>

\* the text  projects
projects ==
  <<"p","r","o","j","e","c","t","s">>

\* the text  status
status ==
  <<"s","t","a","t","u","s">>

\* the text  active
active ==
  <<"a","c","t","i","v","e">>

\* the text  name
name ==
  <<"n","a","m","e">>

\* the text  Alice
Alice ==
  <<"A","l","i","c","e">>

\* the text  asc
asc ==
  <<"a","s","c">>

\* the text  a&b=c
AmpArg ==
  <<"a","&","b","=","c">>

\* the text  x=y
EqArg ==
  <<"x","=","y">>

\* the text  {"id":7,"name":"Alice"}
BodyAlice ==
  <<"{","\"","i","d","\"",":","7",",","\"","n","a","m","e","\"",":","\"","A",
    "l","i","c","e","\"","}">>

\* the text   [1, 2] 
BodySpaced ==
  <<" ","[","1",","," ","2","]"," ">>

\* the text  <h1>
BodyHtml ==
  <<"<","h","1",">">>

\* the text  {"detail":"no"}
BodyDetail ==
  <<"{","\"","d","e","t","a","i","l","\"",":","\"","n","o","\"","}">>

\* the longest list of identifiers a delete is called with
MaxIds == 3

\* the two calls that may be in flight at the same time, numbered in the
\* order they are made
Calls == {1, 2}

RecordName == Obj(<<Member(name, Str(Alice))>>)
RecordIdName == Obj(<<Member(<<"i", "d">>, Num(7)), Member(name, Str(Alice))>>)

FetchColumnsInputs == {<<Str(students)>>, <<Str(AmpArg)>>}
SearchInputs ==
  {<<Str(projects), Str(status), Str(active)>>,
   <<Str(students), Str(name), Str(AmpArg)>>,
   <<Str(students), Str(name), Str(EqArg)>>}
SortInputs ==
  {<<Str(students), Str(name), Str(asc)>>, <<Str(mentors), Str(AmpArg), Str(asc)>>}
SelectAllInputs == {<<Str(students)>>, <<Str(EqArg)>>}
InsertInputs == {<<RecordName>>}
UpdateInputs == {<<Num(7), RecordName>>, <<Num(12), RecordIdName>>}
DeleteInputs == {<<Arr([i \in 1..MaxIds |-> Num(i)])>>}

\* what the backend may answer: a status, a body, and whether the body
\* arrives whole
Responses ==
  {[status |-> 200, body |-> BodyAlice, complete |-> TRUE],
   [status |-> 299, body |-> BodySpaced, complete |-> TRUE],
   [status |-> 200, body |-> BodyHtml, complete |-> TRUE],
   [status |-> 200, body |-> BodyAlice, complete |-> FALSE],
   [status |-> 300, body |-> BodyAlice, complete |-> TRUE],
   [status |-> 404, body |-> BodyDetail, complete |-> TRUE]}

NoCall == [op |-> "none", args |-> <<>>]

----------------------------------------------------------------------------
(* The state machine *)

Init ==
  /\ pc = [c \in Calls |-> "idle"]
  /\ call = [c \in Calls |-> NoCall]
  /\ requests = <<>>
  /\ response = [c \in Calls |-> NoResponse]
  /\ jsonCalls = [c \in Calls |-> 0]
  /\ outcome = [c \in Calls |-> Pending]

\* a faulty variant of the fetch call: the request is issued twice
FetchTwice(log, c, req) ==
  Append(Append(log, [from |-> c, req |-> req]), [from |-> c, req |-> req])

\* fetch(...) called by c: the transport takes the request
Fetch(log, c, req) == Append(log, [from |-> c, req |-> req])

\* the operation op is called with args: it builds req, calls fetch and
\* suspends at the await
Invoke(c, op, args, req) ==
  /\ pc[c] = "idle"
  /\ \A d \in Calls : d < c => pc[d] # "idle"
  /\ pc' = [pc EXCEPT ![c] = "request-sent"]
  /\ call' = [call EXCEPT ![c] = [op |-> op, args |-> args]]
  /\ requests' = Fetch(requests, c, req)
  /\ UNCHANGED <<response, jsonCalls, outcome>>

fetchEntityColumns(c) ==
  \E i \in FetchColumnsInputs :
    Invoke(c, "fetchEntityColumns", i, fetchEntityColumnsRequest(i[1]))

searchRecords(c) ==
  \E i \in SearchInputs :
    Invoke(c, "searchRecords", i, searchRecordsRequest(i[1], i[2], i[3]))

sortRecords(c) ==
  \E i \in SortInputs :
    Invoke(c, "sortRecords", i, sortRecordsRequest(i[1], i[2], i[3]))

selectAllRecords(c) ==
  \E i \in SelectAllInputs :
    Invoke(c, "selectAllRecords", i, selectAllRecordsRequest(i[1]))

insertStudent(c) ==
  \E i \in InsertInputs : Invoke(c, "insertStudent", i, insertStudentRequest(i[1]))

deleteStudents(c) ==
  \E i \in DeleteInputs : Invoke(c, "deleteStudents", i, deleteStudentsRequest(i[1]))

updateStudent(c) ==
  \E i \in UpdateInputs :
    Invoke(c, "updateStudent", i, updateStudentRequest(i[1], i[2]))

insertMentor(c) ==
  \E i \in InsertInputs : Invoke(c, "insertMentor", i, insertMentorRequest(i[1]))

updateMentor(c) ==
  \E i \in UpdateInputs :
    Invoke(c, "updateMentor", i, updateMentorRequest(i[1], i[2]))

deleteMentors(c) ==
  \E i \in DeleteInputs : Invoke(c, "deleteMentors", i, deleteMentorsRequest(i[1]))

insertProject(c) ==
  \E i \in InsertInputs : Invoke(c, "insertProject", i, insertProjectRequest(i[1]))

updateProject(c) ==
  \E i \in UpdateInputs :
    Invoke(c, "updateProject", i, updateProjectRequest(i[1], i[2]))

deleteProjects(c) ==
  \E i \in DeleteInputs : Invoke(c, "deleteProjects", i, deleteProjectsRequest(i[1]))

\* the transport delivers a response: the promise of fetch is fulfilled
FetchResolves(c) ==
  /\ pc[c] = "request-sent"
  /\ \E r \in Responses : response' = [response EXCEPT ![c] = r]
  /\ pc' = [pc EXCEPT ![c] = "response-received"]
  /\ UNCHANGED <<call, requests, jsonCalls, outcome>>

\* the transport fails: the promise of fetch is rejected with a TypeError,
\* the await throws it and nothing catches it
FetchRejects(c) ==
  /\ pc[c] = "request-sent"
  /\ pc' = [pc EXCEPT ![c] = "rejected"]
  /\ outcome' = [outcome EXCEPT
                   ![c] = AwaitRejection(call[c], Rejected("TypeError", FetchFailedMessage))]
  /\ UNCHANGED <<call, requests, response, jsonCalls>>

\* a faulty variant of the binding: `response` is one variable of the module,
\* shared by all calls
SharedResponse(c) == response[CHOOSE d \in Calls : response[d] # NoResponse]

\* the Response the local constant `response` of call c is bound to
AwaitedResponse(c) == response[c]

\* a faulty variant of the continuation: a non-ok response is waited for
\* again instead of thrown
AfterFetchRetry(c) ==
  /\ pc[c] = "response-received"
  /\ IF ~ResponseOk(AwaitedResponse(c))
     THEN /\ pc' = [pc EXCEPT ![c] = "request-sent"]
          /\ UNCHANGED <<jsonCalls, outcome>>
     ELSE /\ pc' = [pc EXCEPT ![c] = "decoding"]
          /\ jsonCalls' = [jsonCalls EXCEPT ![c] = @ + 1]
          /\ UNCHANGED outcome
  /\ UNCHANGED <<call, requests, response>>

\* the function resumes after the await:
\*   if (!response.ok) { throw new Error(...) }  return response.json()
AfterFetch(c) ==
  /\ pc[c] = "response-received"
  /\ IF ~ResponseOk(AwaitedResponse(c))
     THEN /\ pc' = [pc EXCEPT ![c] = "rejected"]
          /\ outcome' = [outcome EXCEPT ![c] = Rejected("Error", ErrorMessage(call[c]))]
          /\ UNCHANGED jsonCalls
     ELSE /\ pc' = [pc EXCEPT ![c] = "decoding"]
          /\ jsonCalls' = [jsonCalls EXCEPT ![c] = @ + 1]
          /\ UNCHANGED outcome
  /\ UNCHANGED <<call, requests, response>>

\* a faulty variant of the return: response.json().catch(() => null)
JsonSettlesOrNull(c) ==
  /\ pc[c] = "decoding"
  /\ LET settled == ResponseJson(AwaitedResponse(c))
     IN  /\ outcome' = [outcome EXCEPT
                          ![c] = IF settled.kind = "value" THEN settled ELSE Fulfilled(Null)]
         /\ pc' = [pc EXCEPT ![c] = "resolved"]
  /\ UNCHANGED <<call, requests, response, jsonCalls>>

\* the promise of response.json() settles, and with it the promise the
\* async function returned
JsonSettles(c) ==
  /\ pc[c] = "decoding"
  /\ LET settled == ResponseJson(AwaitedResponse(c))
     IN  /\ outcome' = [outcome EXCEPT ![c] = settled]
         /\ pc' = [pc EXCEPT
                     ![c] = IF settled.kind = "value" THEN "resolved" ELSE "rejected"]
  /\ UNCHANGED <<call, requests, response, jsonCalls>>

Next ==
  \E c \in Calls :
    \/ fetchEntityColumns(c)
    \/ searchRecords(c)
    \/ sortRecords(c)
    \/ selectAllRecords(c)
    \/ insertStudent(c)
    \/ deleteStudents(c)
    \/ updateStudent(c)
    \/ insertMentor(c)
    \/ updateMentor(c)
    \/ deleteMentors(c)
    \/ insertProject(c)
    \/ updateProject(c)
    \/ deleteProjects(c)
    \/ FetchResolves(c)
    \/ FetchRejects(c)
    \/ AfterFetch(c)
    \/ JsonSettles(c)

Spec == Init /\ [][Next]_vars

----------------------------------------------------------------------------
(* Vocabulary of the properties *)

Terminal == {"resolved", "rejected"}

ReadOps == {"fetchEntityColumns", "searchRecords", "sortRecords", "selectAllRecords"}

WriteOps ==
  {"insertStudent", "updateStudent", "deleteStudents",
   "insertMentor", "updateMentor", "deleteMentors",
   "insertProject", "updateProject", "deleteProjects"}

\* the requests the transport took from call c
RequestsOf(c) == SelectSeq(requests, LAMBDA m : m.from = c)

\* the status is one of 200..299
InOkRange(resp) == resp.status \in 200..299

\* call c was answered with a response whose status is outside 200..299
AnsweredNotOk(c) == response[c] # NoResponse /\ ~InOkRange(response[c])

\* the transport failed call c: its fetch was settled without a response
TransportFailed(c) == pc[c] = "rejected" /\ response[c] = NoResponse

\* the response of call c carries a whole body that is JSON text
HasJsonBody(c) == response[c].complete /\ JSONparse(response[c].body).ok

----------------------------------------------------------------------------
\* C1: when the backend answers a write operation (insert, update or delete
\* of a student, mentor or project) with status 200 and a JSON body, the call
\* does not end rejected: it resolves, and with exactly the value the body
\* decodes to.
WriteResolvesWithBody ==
  \A c \in Calls :
    ( /\ call[c].op \in WriteOps
      /\ pc[c] \in Terminal
      /\ response[c].status = 200
      /\ HasJsonBody(c) )
    => /\ pc[c] = "resolved"
       /\ outcome[c] = Fulfilled(JSONparse(response[c].body).val)

\* updateMentor(7, {name: "Alice"}) answered 200 {"id":7,"name":"Alice"} has
\* resolved with the object of the body, which is not the payload
WriteResolvesWithBodyWitness ==
  \E c \in Calls :
    /\ call[c] = [op |-> "updateMentor", args |-> <<Num(7), RecordName>>]
    /\ response[c] = [status |-> 200, body |-> BodyAlice, complete |-> TRUE]
    /\ pc[c] = "resolved"
    /\ outcome[c].kind = "value"
    /\ outcome[c].value = RecordIdName
    /\ outcome[c].value # call[c].args[2]

\* C2: a call answered with a status outside 200-299 never resolves with a
\* value and never invokes response.json(): it is rejected, whatever the body.
NotOkRejectsUndecoded ==
  \A c \in Calls :
    AnsweredNotOk(c)
    => /\ pc[c] \in {"response-received", "rejected"}
       /\ outcome[c].kind # "value"
       /\ jsonCalls[c] = 0
       /\ pc[c] = "rejected" => outcome[c].kind = "error"

\* a call answered 300 with a body that is valid JSON has been rejected
\* without decoding it
NotOkRejectsUndecodedWitness ==
  \E c \in Calls :
    /\ response[c].status = 300
    /\ HasJsonBody(c)
    /\ pc[c] = "rejected"
    /\ jsonCalls[c] = 0

\* C3 as stated: a transport failure and a non-ok response of the same
\* operation, called with the same arguments, reject with the same error.
TransportFailureIndistinguishable ==
  \A c, d \in Calls :
    ( /\ call[c] = call[d]
      /\ TransportFailed(c)
      /\ pc[d] = "rejected" /\ AnsweredNotOk(d) )
    => outcome[c] = outcome[d]

\* C3 as the code has it: both end in a rejection, but of different kinds.  A
\* non-ok response rejects with an Error made by the operation; a transport
\* failure rejects with the error of fetch itself (a TypeError with the
\* transport's message), passed on unchanged, so the two can be told apart.
TransportFailureDistinct ==
  \A c \in Calls :
    /\ TransportFailed(c)
       => outcome[c] = Rejected("TypeError", FetchFailedMessage)
    /\ (pc[c] = "rejected" /\ AnsweredNotOk(c))
       => /\ outcome[c].kind = "error"
          /\ outcome[c].name = "Error"
          /\ outcome[c] # Rejected("TypeError", FetchFailedMessage)

\* the same operation with the same arguments, once failed by the transport
\* and once answered 404: the two errors differ
TransportFailureDistinctWitness ==
  /\ call[1] = call[2]
  /\ TransportFailed(1)
  /\ pc[2] = "rejected" /\ response[2].status = 404
  /\ outcome[1].name = "TypeError"
  /\ outcome[2].name = "Error"

\* C4 as stated: the message of the error raised on a non-ok response is
\* fixed by the operation alone: two calls of one operation carry the same
\* message, whatever their arguments, statuses and response bodies.
MessageFixedPerOperation ==
  \A c, d \in Calls :
    ( /\ call[c].op = call[d].op
      /\ pc[c] = "rejected" /\ AnsweredNotOk(c)
      /\ pc[d] = "rejected" /\ AnsweredNotOk(d) )
    => outcome[c].message = outcome[d].message

\* C4 as the code has it: the message is fixed by the operation alone for the
\* twelve operations other than fetchEntityColumns; the message of
\* fetchEntityColumns is "Failed to fetch <entity> columns", so it varies with
\* the entity argument.  No message varies with the status or the body.
MessageFixedButColumns ==
  \A c, d \in Calls :
    ( /\ call[c].op = call[d].op
      /\ pc[c] = "rejected" /\ AnsweredNotOk(c)
      /\ pc[d] = "rejected" /\ AnsweredNotOk(d) )
    => /\ call[c].op # "fetchEntityColumns"
          => outcome[c].message = outcome[d].message
       /\ call[c].op = "fetchEntityColumns"
          => /\ outcome[c].message
                  = FailedToFetch \o call[c].args[1].s \o ColumnsWord
             /\ (outcome[c].message = outcome[d].message)
                  <=> (call[c].args[1] = call[d].args[1])

\* two searchRecords calls with different arguments, answered 300 and 404
\* with different bodies, carry the same message
MessageFixedButColumnsWitness ==
  /\ call[1].op = "searchRecords" /\ call[2].op = "searchRecords"
  /\ call[1].args[1] # call[2].args[1]
  /\ response[1].status = 300 /\ response[2].status = 404
  /\ pc[1] = "rejected" /\ pc[2] = "rejected"
  /\ outcome[1].message = SearchMessage
  /\ outcome[2].message = SearchMessage

\* C5: every call issues exactly one network request over its lifetime: none
\* before it is made, one from then on, on every path (ok response, non-ok
\* response, transport failure, decoding failure), and never a second one.
ExactlyOneRequest ==
  \A c \in Calls :
    Len(RequestsOf(c)) = IF pc[c] = "idle" THEN 0 ELSE 1

\* one call ended by a decoding failure and one by a transport failure, each
\* with its single request
ExactlyOneRequestWitness ==
  /\ pc[1] = "rejected" /\ outcome[1].name = "SyntaxError"
  /\ TransportFailed(2)
  /\ Len(RequestsOf(1)) = 1 /\ Len(RequestsOf(2)) = 1
  /\ Len(requests) = 2

\* C6: two calls in flight at the same time do not interfere.  Whatever the
\* interleaving and the order of the answers, the outcome of a call is set by
\* its own operation, arguments and response: a value is the decoding of its
\* own body, an Error carries its own operation's message and answers its own
\* non-ok status, and two calls with the same arguments and the same response
\* end alike.  The rejection of one call does not reject the other.
CallsIndependent ==
  /\ \A c \in Calls :
       /\ pc[c] = "resolved"
          => /\ InOkRange(response[c])
             /\ HasJsonBody(c)
             /\ outcome[c] = Fulfilled(JSONparse(response[c].body).val)
       /\ (pc[c] = "rejected" /\ outcome[c].name = "Error")
          => /\ AnsweredNotOk(c)
             /\ outcome[c].message = ErrorMessage(call[c])
       /\ (pc[c] = "rejected" /\ outcome[c].name = "SyntaxError")
          => /\ InOkRange(response[c])
             /\ response[c].complete /\ ~JSONparse(response[c].body).ok
       /\ (pc[c] = "rejected" /\ outcome[c].name = "TypeError")
          => \/ response[c] = NoResponse
             \/ InOkRange(response[c]) /\ ~response[c].complete
       /\ pc[c] \notin Terminal => outcome[c] = Pending
  /\ \A c, d \in Calls :
       ( /\ pc[c] \in Terminal /\ pc[d] \in Terminal
         /\ call[c] = call[d] /\ response[c] = response[d] )
       => outcome[c] = outcome[d]

\* selectAllRecords("students") was made first and insertProject(p) second;
\* the second was answered first, with 404, and is rejected, while the first,
\* still in flight, holds its own 299 response and is untouched
CallsIndependentWitness ==
  /\ call[1] = [op |-> "selectAllRecords", args |-> <<Str(students)>>]
  /\ call[2] = [op |-> "insertProject", args |-> <<RecordName>>]
  /\ response[1] = [status |-> 299, body |-> BodySpaced, complete |-> TRUE]
  /\ response[2].status = 404
  /\ pc[1] = "decoding" /\ outcome[1] = Pending
  /\ pc[2] = "rejected" /\ outcome[2].message = InsertProjectMessage

\* the request of call c, once it is made
RequestOf(c) == RequestsOf(c)[1].req

\* the route table: the method of a write operation ...
MethodOf(op) ==
  CASE op \in {"insertStudent", "insertMentor", "insertProject"} -> "POST"
    [] op \in {"updateStudent", "updateMentor", "updateProject"} -> "PUT"
    [] op \in {"deleteStudents", "deleteMentors", "deleteProjects"} -> "DELETE"

\* ... and the path of its entity
EntityPathOf(op) ==
  CASE op \in {"insertStudent", "updateStudent", "deleteStudents"} -> <<"/">> \o students
    [] op \in {"insertMentor", "updateMentor", "deleteMentors"} -> <<"/">> \o mentors
    [] op \in {"insertProject", "updateProject", "deleteProjects"} -> <<"/">> \o projects

\* C7: every write operation sends the request of the route table.  An insert
\* POSTs the record to /<entity>; an update PUTs the record to /<entity>/<id>,
\* the id in the path only; a delete DELETEs the list of ids to /<entity>, the
\* ids in the body only.  The body is the JSON text of the payload (it decodes
\* back to the payload), the header is Content-Type: application/json, and
\* each operation uses the path of its own entity.
WriteRequestShape ==
  \A c \in Calls :
    (call[c].op \in WriteOps)
    => LET r == RequestOf(c)
           op == call[c].op
           isUpdate == MethodOf(op) = "PUT"
           payload == IF isUpdate THEN call[c].args[2] ELSE call[c].args[1]
       IN  /\ r.method = MethodOf(op)
           /\ r.url = BASE_URL \o EntityPathOf(op)
                      \o (IF isUpdate
                          THEN <<"/">> \o NumberToString(call[c].args[1].n)
                          ELSE <<>>)
           /\ r.hasBody
           /\ r.body = JSONstringify(payload)
           /\ JSONparse(r.body) = Parsed(payload, Len(r.body) + 1)
           /\ r.headers = {<<"Content-Type", "application/json">>}

\* updateMentor(7, {name: "Alice"}) has sent PUT /mentors/7 with the body
\* {"name":"Alice"} and the JSON content type
WriteRequestShapeWitness ==
  \E c \in Calls :
    /\ call[c] = [op |-> "updateMentor", args |-> <<Num(7), RecordName>>]
    /\ RequestsOf(c) # <<>>
    /\ RequestOf(c).method = "PUT"
    /\ RequestOf(c).url = BASE_URL \o <<"/", "m", "e", "n", "t", "o", "r", "s", "/", "7">>
    /\ RequestOf(c).body
         = <<"{", "\"", "n", "a", "m", "e", "\"", ":", "\"", "A", "l", "i", "c", "e", "\"", "}">>
    /\ RequestOf(c).headers = {<<"Content-Type", "application/json">>}

----------------------------------------------------------------------------
(* What a server reads in the query string of a URL (URL standard,         *)
(* application/x-www-form-urlencoded parsing): the text after the first ?  *)
(* is cut at every &, empty pieces are dropped, and each piece is a name   *)
(* and a value, cut at its first =.                                        *)

\* the position of the first ch in x from position i on, or 0
RECURSIVE IndexOf(_, _, _)
IndexOf(x, ch, i) ==
  IF i > Len(x) THEN 0 ELSE IF x[i] = ch THEN i ELSE IndexOf(x, ch, i + 1)

Contains(x, ch) == IndexOf(x, ch, 1) # 0

\* the query string of a URL: what follows the first ?
QueryOf(url) ==
  IF Contains(url, "?") THEN SubSeq(url, IndexOf(url, "?", 1) + 1, Len(url)) ELSE <<>>

\* x cut at every ch
RECURSIVE SplitOn(_, _)
SplitOn(x, ch) ==
  IF ~Contains(x, ch) THEN <<x>>
  ELSE <<SubSeq(x, 1, IndexOf(x, ch, 1) - 1)>>
       \o SplitOn(SubSeq(x, IndexOf(x, ch, 1) + 1, Len(x)), ch)

\* a piece of the query as <<name, value>>
NameValue(piece) ==
  IF Contains(piece, "=")
  THEN <<SubSeq(piece, 1, IndexOf(piece, "=", 1) - 1),
         SubSeq(piece, IndexOf(piece, "=", 1) + 1, Len(piece))>>
  ELSE <<piece, <<>>>>

RECURSIVE NameValues(_)
NameValues(pieces) ==
  IF pieces = <<>> THEN <<>>
  ELSE (IF Head(pieces) = <<>> THEN <<>> ELSE <<NameValue(Head(pieces))>>)
       \o NameValues(Tail(pieces))

\* the query parameters of a URL, in order
ParseQuery(url) == NameValues(SplitOn(QueryOf(url), "&"))

----------------------------------------------------------------------------
EntityName == <<"e", "n", "t", "i", "t", "y">>
ColumnName == <<"c", "o", "l", "u", "m", "n">>
ValueName == <<"v", "a", "l", "u", "e">>
OrderName == <<"o", "r", "d", "e", "r">>

\* the path and query a read operation is to send, its arguments verbatim
ReadTarget(k) ==
  CASE k.op = "fetchEntityColumns" ->
         <<"/">> \o k.args[1].s \o <<"/", "c", "o", "l", "u", "m", "n", "s">>
    [] k.op = "searchRecords" ->
         <<"/", "s", "e", "a", "r", "c", "h", "?">>
         \o EntityName \o <<"=">> \o k.args[1].s \o <<"&">>
         \o ColumnName \o <<"=">> \o k.args[2].s \o <<"&">>
         \o ValueName \o <<"=">> \o k.args[3].s
    [] k.op = "sortRecords" ->
         <<"/", "s", "o", "r", "t", "?">>
         \o EntityName \o <<"=">> \o k.args[1].s \o <<"&">>
         \o ColumnName \o <<"=">> \o k.args[2].s \o <<"&">>
         \o OrderName \o <<"=">> \o k.args[3].s
    [] k.op = "selectAllRecords" ->
         <<"/", "a", "l", "l", "?">> \o EntityName \o <<"=">> \o k.args[1].s

\* the query parameters the caller of a read operation means to send
MeantParameters(k) ==
  CASE k.op = "fetchEntityColumns" -> <<>>
    [] k.op = "searchRecords" ->
         <<<<EntityName, k.args[1].s>>, <<ColumnName, k.args[2].s>>,
           <<ValueName, k.args[3].s>>>>
    [] k.op = "sortRecords" ->
         <<<<EntityName, k.args[1].s>>, <<ColumnName, k.args[2].s>>,
           <<OrderName, k.args[3].s>>>>
    [] k.op = "selectAllRecords" -> <<<<EntityName, k.args[1].s>>>>

SomeArgContains(k, ch) == \E i \in DOMAIN k.args : Contains(k.args[i].s, ch)

\* a read operation sends GET, no body, no headers, to the base address
\* followed by its arguments verbatim
ReadRequestVerbatim(c) ==
  /\ RequestOf(c).method = "GET"
  /\ ~RequestOf(c).hasBody
  /\ RequestOf(c).headers = {}
  /\ RequestOf(c).url = BASE_URL \o ReadTarget(call[c])

\* the operations whose arguments go into a query string
QueryOps == {"searchRecords", "sortRecords", "selectAllRecords"}

----------------------------------------------------------------------------
\* the edges of the single transaction of a call
TransactionEdges ==
  {<<"idle", "request-sent">>,
   <<"request-sent", "response-received">>,
   <<"request-sent", "rejected">>,
   <<"response-received", "decoding">>,
   <<"response-received", "rejected">>,
   <<"decoding", "resolved">>,
   <<"decoding", "rejected">>}

\* what C9 says of every step of every call, but for the end of an ok response
TransactionStep(c) ==
  /\ pc[c] \in Terminal => (pc'[c] = pc[c] /\ outcome'[c] = outcome[c])
  /\ pc'[c] # pc[c] => <<pc[c], pc'[c]>> \in TransactionEdges
  /\ (pc[c] = "response-received" /\ pc'[c] = "decoding") => InOkRange(response[c])
  /\ (pc[c] = "response-received" /\ pc'[c] = "rejected") => ~InOkRange(response[c])
  /\ pc'[c] \in Terminal => Len(SelectSeq(requests', LAMBDA m : m.from = c)) = 1
  /\ (pc'[c] = "resolved") <=> (outcome'[c].kind = "value")
  /\ (pc'[c] = "rejected") <=> (outcome'[c].kind = "error")

\* C9 as stated: every call follows idle -> request-sent -> response ->
\* resolved or rejected, reaches at most one terminal outcome and never leaves
\* it, never settles before its request was sent, and a response whose status
\* is in 200-299 always ends resolved, whatever its body.
OkAlwaysResolves ==
  [][\A c \in Calls :
       /\ TransactionStep(c)
       /\ (pc'[c] \in Terminal /\ InOkRange(response'[c])) => pc'[c] = "resolved"]_vars

\* C9 as the code has it: the transaction is as stated, but a response whose
\* status is in 200-299 ends resolved only when its body arrives whole and is
\* valid JSON; otherwise the call is rejected with the error of
\* response.json().
OkResolvesIfJson ==
  [][\A c \in Calls :
       /\ TransactionStep(c)
       /\ (pc'[c] \in Terminal /\ InOkRange(response'[c]))
          => /\ (pc'[c] = "resolved")
                  <=> (response'[c].complete /\ JSONparse(response'[c].body).ok)
             /\ pc'[c] = "rejected"
                  => outcome'[c].name \in {"SyntaxError", "TypeError"}]_vars

\* updateMentor answered 200 with a body that is not JSON has been rejected
\* with a SyntaxError, while a fetchEntityColumns answered 200 with a JSON
\* body has resolved
OkResolvesIfJsonWitness ==
  \E c, d \in Calls :
    /\ call[c].op = "updateMentor"
    /\ response[c] = [status |-> 200, body |-> BodyHtml, complete |-> TRUE]
    /\ pc[c] = "rejected" /\ outcome[c].name = "SyntaxError"
    /\ call[d].op = "fetchEntityColumns"
    /\ response[d] = [status |-> 200, body |-> BodyAlice, complete |-> TRUE]
    /\ pc[d] = "resolved"

----------------------------------------------------------------------------
(* Termination.  selectAllRecords and deleteStudents under a fair          *)
(* transport: a request that was sent is eventually answered or failed,    *)
(* and a body that is being read is eventually read or broken off; the     *)
(* event loop runs a continuation that is ready.                           *)

LiveNext ==
  \E c \in Calls :
    \/ selectAllRecords(c)
    \/ deleteStudents(c)
    \/ FetchResolves(c)
    \/ FetchRejects(c)
    \/ AfterFetch(c)
    \/ JsonSettles(c)

FairSpec ==
  /\ Init
  /\ [][LiveNext]_vars
  /\ \A c \in Calls :
       /\ WF_vars(FetchResolves(c) \/ FetchRejects(c))
       /\ WF_vars(AfterFetch(c))
       /\ WF_vars(JsonSettles(c))

\* C10: a call completes only through the transport.  Under a fair transport
\* every call whose request was sent eventually resolves or is rejected; and a
\* call leaves request-sent by no step other than the transport delivering a
\* response or failing (the client has no timeout and no abort), so that it
\* stays there for as long as the transport does not answer.
CompletesOnlyThroughTransport ==
  /\ \A c \in Calls : (pc[c] = "request-sent") ~> (pc[c] \in Terminal)
  /\ [][\A c \in Calls :
          (pc[c] = "request-sent" /\ pc'[c] # "request-sent")
          => (FetchResolves(c) \/ FetchRejects(c))]_vars

\* selectAllRecords has completed while deleteStudents, made after it, still
\* waits for the transport
CompletesOnlyThroughTransportWitness ==
  /\ call[1].op = "selectAllRecords" /\ pc[1] = "resolved"
  /\ call[2].op = "deleteStudents" /\ pc[2] = "request-sent"
  /\ outcome[2] = Pending

====
